---- MODULE Spec2Model ----
(***************************************************************************)
(* Negotiation engine of happyrobot-inbound.                                *)
(*                                                                          *)
(* The negotiations table (app/models/negotiation.py) is a sequence of      *)
(* rows; the operations are the HTTP handlers of app/api/negotiations.py    *)
(* together with the NegotiationService methods they call.  Each handler    *)
(* runs as one step (one request at a time).                                *)
(*                                                                          *)
(* Money is DECIMAL(10, 2): an amount is an integer number of cents.        *)
(* Time is counted in hours.  An Optional value is <<>> (None) or <<v>>.    *)
(* sessions holds the requests in flight when two requests interleave, and  *)
(* calls is the calls table written by the webhook; both stay empty where   *)
(* the handlers run one at a time.                                          *)
(* The columns call_id, load_id and carrier_mc_number are written once by   *)
(* Create, and created_at and updated_at are bookkeeping timestamps; no     *)
(* operation reads them and they are left out of the row.                   *)
(***************************************************************************)
EXTENDS Integers, Sequences, FiniteSets, TLC

VARIABLES negotiations, now, response, sessions, calls

vars == <<negotiations, now, response, sessions, calls>>

----------------------------------------------------------------------------
(* Bounds of the model *)

\* the clock stops advancing after MaxTime hours
MaxTime == 36
\* hours added by one step of the clock
TickHours == 12
\* largest max_rounds a caller supplies to Create
MaxRoundsInput == 3

----------------------------------------------------------------------------
(* Program constants *)

\* timedelta(hours=24) of create_negotiation
ExpiryHours == 24

\* Column(Integer, default=1)
DefaultCurrentRound == 1

NegotiationStatus == {"active", "accepted", "rejected", "expired"}

OfferType == {"initial", "counter", "final"}

\* HTTP status codes used by the handlers
HTTP_200_OK == 200
HTTP_201_CREATED == 201
HTTP_400_BAD_REQUEST == 400
HTTP_404_NOT_FOUND == 404
HTTP_409_CONFLICT == 409

----------------------------------------------------------------------------
(* Inputs of the requests *)

NegotiationIds == {"n1"}
Amounts == {120000, 145000}
OriginalRates == {150000}
OfferBy == {"broker", "carrier"}

None == <<>>
Some(v) == <<v>>

\* Python truthiness of an Optional[str]: None and "" are falsy
Truthy(s) == s # None /\ s # Some("")

Feedbacks == {None, Some(""), Some("too low")}
Reasons == {None, Some(""), Some("no deal")}

\* the request body of POST /negotiations/ (NegotiationCreate)
NegotiationCreate ==
    [negotiation_id : NegotiationIds,
     current_offer_amount : Amounts,
     current_offer_by : OfferBy,
     current_offer_type : OfferType,
     original_rate : OriginalRates,
     max_rounds : 1..MaxRoundsInput]

----------------------------------------------------------------------------
(* NegotiationService *)

\* index of the first row with this primary key, 0 when there is none
get_negotiation(rows, id) ==
    IF \E i \in 1..Len(rows) : rows[i].negotiation_id = id
    THEN CHOOSE i \in 1..Len(rows) :
            /\ rows[i].negotiation_id = id
            /\ \A j \in 1..(i - 1) : rows[j].negotiation_id # id
    ELSE 0

ExpiresAt_none(t) == t

\* datetime.utcnow() + timedelta(hours=24)
ExpiresAt(t) == t + ExpiryHours

\* Negotiation(**negotiation_data.model_dump()) with the column defaults
\* of status, current_round and the nullable columns, then expires_at
create_negotiation(rows, data, t) ==
    Append(rows,
        [negotiation_id |-> data.negotiation_id,
         status |-> "active",
         current_round |-> DefaultCurrentRound,
         max_rounds |-> data.max_rounds,
         current_offer_amount |-> data.current_offer_amount,
         current_offer_by |-> data.current_offer_by,
         current_offer_type |-> data.current_offer_type,
         original_rate |-> data.original_rate,
         final_agreed_rate |-> None,
         broker_notes |-> None,
         carrier_feedback |-> None,
         expires_at |-> Some(ExpiresAt(t))])

\* model_dump(exclude_unset=True): setattr of every field set in the update
update_negotiation(rows, id, negotiation_update) ==
    LET i == get_negotiation(rows, id) IN
    IF i = 0 THEN rows
    ELSE [rows EXCEPT ![i] =
            [f \in DOMAIN rows[i] |->
                IF f \in DOMAIN negotiation_update
                THEN negotiation_update[f]
                ELSE rows[i][f]]]

NotActive_found(rows, i) == i = 0

\* not negotiation or negotiation.status != NegotiationStatus.ACTIVE
NotActive(rows, i) == i = 0 \/ rows[i].status # "active"

\* negotiation.expires_at and negotiation.expires_at < datetime.utcnow()
IsExpired(n, t) == n.expires_at # None /\ n.expires_at[1] < t

RoundLimitReached_off(n) == n.current_round > n.max_rounds

\* negotiation.current_round >= negotiation.max_rounds
RoundLimitReached(n) == n.current_round >= n.max_rounds

\* NegotiationUpdate(status=NegotiationStatus.EXPIRED)
ExpiredUpdate == [status |-> "expired"]

RoundLimitUpdate_none == [current_offer_type |-> "final"]

\* NegotiationUpdate(status=NegotiationStatus.REJECTED)
RoundLimitUpdate == [status |-> "rejected"]

CounterOfferUpdate_same_round(n, offer_amount, offer_by, carrier_feedback) ==
    LET update_data ==
            [current_round |-> n.current_round,
             current_offer_amount |-> offer_amount,
             current_offer_by |-> offer_by,
             current_offer_type |-> "counter"]
    IN IF Truthy(carrier_feedback)
       THEN update_data @@ [carrier_feedback |-> carrier_feedback]
       ELSE update_data

\* the NegotiationUpdate of a counter offer; carrier_feedback is set
\* only when it is truthy
CounterOfferUpdate(n, offer_amount, offer_by, carrier_feedback) ==
    LET update_data ==
            [current_round |-> n.current_round + 1,
             current_offer_amount |-> offer_amount,
             current_offer_by |-> offer_by,
             current_offer_type |-> "counter"]
    IN IF Truthy(carrier_feedback)
       THEN update_data @@ [carrier_feedback |-> carrier_feedback]
       ELSE update_data

\* result of a service call: the table afterwards, and whether a
\* negotiation (rather than None) is returned
Returned(rows, found) == [rows |-> rows, found |-> found]

make_counter_offer_rounds_first(rows, id, offer_amount, offer_by, carrier_feedback, t) ==
    LET i == get_negotiation(rows, id) IN
    IF NotActive(rows, i)
    THEN Returned(rows, FALSE)
    ELSE IF RoundLimitReached(rows[i])
    THEN Returned(update_negotiation(rows, id, RoundLimitUpdate), FALSE)
    ELSE IF IsExpired(rows[i], t)
    THEN Returned(update_negotiation(rows, id, ExpiredUpdate), FALSE)
    ELSE Returned(update_negotiation(rows, id,
                    CounterOfferUpdate(rows[i], offer_amount, offer_by,
                                       carrier_feedback)), TRUE)

make_counter_offer(rows, id, offer_amount, offer_by, carrier_feedback, t) ==
    LET i == get_negotiation(rows, id) IN
    IF NotActive(rows, i)
    THEN Returned(rows, FALSE)
    ELSE IF IsExpired(rows[i], t)
    THEN Returned(update_negotiation(rows, id, ExpiredUpdate), FALSE)
    ELSE IF RoundLimitReached(rows[i])
    THEN Returned(update_negotiation(rows, id, RoundLimitUpdate), FALSE)
    ELSE Returned(update_negotiation(rows, id,
                    CounterOfferUpdate(rows[i], offer_amount, offer_by,
                                       carrier_feedback)), TRUE)

AcceptUpdate_offer(final_rate) ==
    [status |-> "accepted",
     final_agreed_rate |-> Some(final_rate),
     current_offer_amount |-> final_rate,
     current_offer_type |-> "final"]

\* NegotiationUpdate(status=ACCEPTED, final_agreed_rate=final_rate,
\*                   current_offer_type=FINAL)
AcceptUpdate(final_rate) ==
    [status |-> "accepted",
     final_agreed_rate |-> Some(final_rate),
     current_offer_type |-> "final"]

accept_offer_found(rows, id, final_rate) ==
    Returned(update_negotiation(rows, id, AcceptUpdate(final_rate)), TRUE)

accept_offer(rows, id, final_rate) ==
    Returned(update_negotiation(rows, id, AcceptUpdate(final_rate)),
             get_negotiation(rows, id) # 0)

RejectUpdate_always(reason) ==
    [status |-> "rejected"] @@ [broker_notes |-> reason]

\* NegotiationUpdate(status=REJECTED); broker_notes is set only when the
\* reason is truthy
RejectUpdate(reason) ==
    IF Truthy(reason)
    THEN [status |-> "rejected"] @@ [broker_notes |-> reason]
    ELSE [status |-> "rejected"]

reject_offer(rows, id, reason) ==
    Returned(update_negotiation(rows, id, RejectUpdate(reason)),
             get_negotiation(rows, id) # 0)

expired_negotiations_none(rows, t) == {}

expired_negotiations_any_status(rows, t) ==
    {i \in 1..Len(rows) : IsExpired(rows[i], t)}

\* the rows selected by the query of cleanup_expired_negotiations
expired_negotiations(rows, t) ==
    {i \in 1..Len(rows) : rows[i].status = "active" /\ IsExpired(rows[i], t)}

cleanup_expired_negotiations_no_commit(rows, t) == rows

cleanup_expired_negotiations(rows, t) ==
    [i \in 1..Len(rows) |->
        IF i \in expired_negotiations(rows, t)
        THEN [rows[i] EXCEPT !.status = "expired"]
        ELSE rows[i]]

(* evaluate_carrier_offer.  The thresholds are products of a two-digit
   amount and a two-digit factor: the amounts of a decision are counted
   in hundredths of a cent, so that original_rate * Decimal("0.95") is
   95 * original_rate and (carrier_offer + original_rate) / 2 is
   50 * (carrier_offer + original_rate), both exact as in Decimal. *)

MinAcceptable_strict(n) ==
    IF n.current_round > n.max_rounds - 1
    THEN 90 * n.original_rate
    ELSE 95 * n.original_rate

\* original_rate * 0.95, or original_rate * 0.90 in later rounds
MinAcceptable(n) ==
    IF n.current_round >= n.max_rounds - 1
    THEN 90 * n.original_rate
    ELSE 95 * n.original_rate

AtMaxRounds_strict(n) == n.current_round > n.max_rounds

\* current_round >= max_rounds
AtMaxRounds(n) == n.current_round >= n.max_rounds

SplitTheDifference_no_floor(carrier_offer, original_rate, min_acceptable) ==
    50 * (carrier_offer + original_rate)

\* max((carrier_offer + original_rate) / 2, min_acceptable)
SplitTheDifference(carrier_offer, original_rate, min_acceptable) ==
    LET counter_offer == 50 * (carrier_offer + original_rate) IN
    IF counter_offer >= min_acceptable THEN counter_offer ELSE min_acceptable

NegotiationDecision(should_accept, counter_offer_amount, reasoning, is_final_offer) ==
    [should_accept |-> should_accept,
     counter_offer_amount |-> counter_offer_amount,
     reasoning |-> reasoning,
     is_final_offer |-> is_final_offer]

evaluate_carrier_offer_active_only(rows, id, carrier_offer) ==
    LET i == get_negotiation(rows, id) IN
    IF i = 0 \/ rows[i].status # "active"
    THEN NegotiationDecision(FALSE, None, "not found", TRUE)
    ELSE IF 100 * carrier_offer >= MinAcceptable(rows[i])
    THEN NegotiationDecision(TRUE, None, "acceptable", TRUE)
    ELSE IF AtMaxRounds(rows[i])
    THEN NegotiationDecision(FALSE, Some(MinAcceptable(rows[i])),
                             "final offer", TRUE)
    ELSE NegotiationDecision(FALSE,
            Some(SplitTheDifference(carrier_offer, rows[i].original_rate,
                                    MinAcceptable(rows[i]))),
            "counter-offering", FALSE)

evaluate_carrier_offer_always_final(rows, id, carrier_offer) ==
    LET i == get_negotiation(rows, id) IN
    IF i = 0
    THEN NegotiationDecision(FALSE, None, "not found", TRUE)
    ELSE IF 100 * carrier_offer >= MinAcceptable(rows[i])
    THEN NegotiationDecision(TRUE, None, "acceptable", TRUE)
    ELSE IF AtMaxRounds(rows[i])
    THEN NegotiationDecision(FALSE, Some(MinAcceptable(rows[i])),
                             "final offer", TRUE)
    ELSE NegotiationDecision(FALSE,
            Some(SplitTheDifference(carrier_offer, rows[i].original_rate,
                                    MinAcceptable(rows[i]))),
            "counter-offering", TRUE)

evaluate_carrier_offer(rows, id, carrier_offer) ==
    LET i == get_negotiation(rows, id) IN
    IF i = 0
    THEN NegotiationDecision(FALSE, None, "not found", TRUE)
    ELSE IF 100 * carrier_offer >= MinAcceptable(rows[i])
    THEN NegotiationDecision(TRUE, None, "acceptable", TRUE)
    ELSE IF AtMaxRounds(rows[i])
    THEN NegotiationDecision(FALSE, Some(MinAcceptable(rows[i])),
                             "final offer", TRUE)
    ELSE NegotiationDecision(FALSE,
            Some(SplitTheDifference(carrier_offer, rows[i].original_rate,
                                    MinAcceptable(rows[i]))),
            "counter-offering", FALSE)

----------------------------------------------------------------------------
(* CallService: the classifiers.  A text is the sequence of its characters
   (one-character strings), so that str.lower() and the substring test
   `phrase in transcript_lower` are computed on characters. *)

\* str.lower() on one character
LowerChar(c) ==
    CASE c = "A" -> "a" []
         c = "B" -> "b" []
         c = "C" -> "c" []
         c = "D" -> "d" []
         c = "E" -> "e" []
         c = "F" -> "f" []
         c = "G" -> "g" []
         c = "H" -> "h" []
         c = "I" -> "i" []
         c = "J" -> "j" []
         c = "K" -> "k" []
         c = "L" -> "l" []
         c = "M" -> "m" []
         c = "N" -> "n" []
         c = "O" -> "o" []
         c = "P" -> "p" []
         c = "Q" -> "q" []
         c = "R" -> "r" []
         c = "S" -> "s" []
         c = "T" -> "t" []
         c = "U" -> "u" []
         c = "V" -> "v" []
         c = "W" -> "w" []
         c = "X" -> "x" []
         c = "Y" -> "y" []
         c = "Z" -> "z"
      [] OTHER -> c

\* str.lower()
Lower(text) == [k \in 1..Len(text) |-> LowerChar(text[k])]

\* phrase in text
Contains(text, phrase) ==
    \E k \in 0..(Len(text) - Len(phrase)) :
        \A j \in 1..Len(phrase) : text[k + j] = phrase[j]

\* Python truthiness of an Optional text: None and "" are falsy
TruthyText(transcript) == transcript # None /\ transcript[1] # <<>>

CallOutcome ==
    {"successful_booking", "rejected_by_carrier", "failed_verification",
     "no_suitable_loads", "negotiation_failed", "transferred_to_sales",
     "call_dropped", "system_error"}

CallSentiment == {"positive", "neutral", "negative", "frustrated", "satisfied"}

\* ["not interested", "declined", "pass"]
DeclinePhrases ==
    {<<"n", "o", "t", " ", "i", "n", "t", "e", "r", "e", "s", "t", "e",
       "d">>,
     <<"d", "e", "c", "l", "i", "n", "e", "d">>,
     <<"p", "a", "s", "s">>}

\* "transfer" in transcript_lower or "sales rep" in transcript_lower
TransferPhrases ==
    {<<"t", "r", "a", "n", "s", "f", "e", "r">>,
     <<"s", "a", "l", "e", "s", " ", "r", "e", "p">>}

\* ["dropped", "hung up", "disconnected"]
DisconnectPhrases ==
    {<<"d", "r", "o", "p", "p", "e", "d">>,
     <<"h", "u", "n", "g", " ", "u", "p">>,
     <<"d", "i", "s", "c", "o", "n", "n", "e", "c", "t", "e", "d">>}

\* any(phrase in transcript_lower for phrase in phrases)
AnyPhrase(transcript_lower, phrases) ==
    \E phrase \in phrases : Contains(transcript_lower, phrase)

classify_call_outcome_transfer_first(transcript, negotiation_successful, carrier_verified, loads_available) ==
    IF ~carrier_verified THEN "failed_verification"
    ELSE IF ~loads_available THEN "no_suitable_loads"
    ELSE IF negotiation_successful THEN "successful_booking"
    ELSE IF ~TruthyText(transcript) THEN "negotiation_failed"
    ELSE LET transcript_lower == Lower(transcript[1]) IN
         IF AnyPhrase(transcript_lower, TransferPhrases)
         THEN "transferred_to_sales"
         ELSE IF AnyPhrase(transcript_lower, DeclinePhrases)
         THEN "rejected_by_carrier"
         ELSE IF AnyPhrase(transcript_lower, DisconnectPhrases)
         THEN "call_dropped"
         ELSE "negotiation_failed"

classify_call_outcome(transcript, negotiation_successful, carrier_verified, loads_available) ==
    IF ~carrier_verified THEN "failed_verification"
    ELSE IF ~loads_available THEN "no_suitable_loads"
    ELSE IF negotiation_successful THEN "successful_booking"
    ELSE IF ~TruthyText(transcript) THEN "negotiation_failed"
    ELSE LET transcript_lower == Lower(transcript[1]) IN
         IF AnyPhrase(transcript_lower, DeclinePhrases)
         THEN "rejected_by_carrier"
         ELSE IF AnyPhrase(transcript_lower, TransferPhrases)
         THEN "transferred_to_sales"
         ELSE IF AnyPhrase(transcript_lower, DisconnectPhrases)
         THEN "call_dropped"
         ELSE "negotiation_failed"

\* ["great", "excellent", "perfect", "thank you", "appreciate", "good"]
positive_words ==
    {<<"g", "r", "e", "a", "t">>,
     <<"e", "x", "c", "e", "l", "l", "e", "n", "t">>,
     <<"p", "e", "r", "f", "e", "c", "t">>,
     <<"t", "h", "a", "n", "k", " ", "y", "o", "u">>,
     <<"a", "p", "p", "r", "e", "c", "i", "a", "t", "e">>,
     <<"g", "o", "o", "d">>}

\* ["frustrated", "angry", "terrible", "awful", "ridiculous", "waste"]
negative_words ==
    {<<"f", "r", "u", "s", "t", "r", "a", "t", "e", "d">>,
     <<"a", "n", "g", "r", "y">>,
     <<"t", "e", "r", "r", "i", "b", "l", "e">>,
     <<"a", "w", "f", "u", "l">>,
     <<"r", "i", "d", "i", "c", "u", "l", "o", "u", "s">>,
     <<"w", "a", "s", "t", "e">>}

\* ["why", "always", "never", "impossible", "difficult"]
frustrated_words ==
    {<<"w", "h", "y">>,
     <<"a", "l", "w", "a", "y", "s">>,
     <<"n", "e", "v", "e", "r">>,
     <<"i", "m", "p", "o", "s", "s", "i", "b", "l", "e">>,
     <<"d", "i", "f", "f", "i", "c", "u", "l", "t">>}

\* sum(1 for word in words if word in transcript_lower): the number of
\* the words that occur, however often each occurs
WordCount(transcript_lower, words) ==
    Cardinality({word \in words : Contains(transcript_lower, word)})

\* frustrated_count > 2
FrustratedLimit == 2

classify_call_sentiment_frustrated_first(transcript) ==
    IF ~TruthyText(transcript) THEN "neutral"
    ELSE LET transcript_lower == Lower(transcript[1])
             positive_count == WordCount(transcript_lower, positive_words)
             negative_count == WordCount(transcript_lower, negative_words)
             frustrated_count == WordCount(transcript_lower, frustrated_words)
         IN IF frustrated_count > FrustratedLimit THEN "frustrated"
            ELSE IF negative_count > positive_count THEN "negative"
            ELSE IF positive_count > 0 THEN "positive"
            ELSE "neutral"

classify_call_sentiment(transcript) ==
    IF ~TruthyText(transcript) THEN "neutral"
    ELSE LET transcript_lower == Lower(transcript[1])
             positive_count == WordCount(transcript_lower, positive_words)
             negative_count == WordCount(transcript_lower, negative_words)
             frustrated_count == WordCount(transcript_lower, frustrated_words)
         IN IF negative_count > positive_count THEN "negative"
            ELSE IF frustrated_count > FrustratedLimit THEN "frustrated"
            ELSE IF positive_count > 0 THEN "positive"
            ELSE "neutral"

(* CallService.process_happyrobot_webhook.  The calls table is a sequence of
   rows; of a row, the columns the conversion of the extracted outcome and
   sentiment decides are kept (call_id, carrier_mc_number,
   happyrobot_call_id, outcome, sentiment).  The times, the transcript and
   the rate of the payload are copied into the row without a decision and
   are left out. *)

\* the characters of the value of an enum member
ValueText(v) ==
    CASE v = "successful_booking" -> <<"s", "u", "c", "c", "e", "s", "s", "f", "u",
             "l", "_", "b", "o", "o", "k", "i", "n", "g">> []
         v = "rejected_by_carrier" -> <<"r", "e", "j", "e", "c", "t", "e",
             "d", "_", "b", "y", "_", "c", "a", "r", "r", "i", "e", "r">> []
         v = "failed_verification" -> <<"f", "a", "i", "l", "e", "d", "_",
             "v", "e", "r", "i", "f", "i", "c", "a", "t", "i", "o", "n">> []
         v = "no_suitable_loads" -> <<"n", "o", "_", "s", "u", "i", "t",
             "a", "b", "l", "e", "_", "l", "o", "a", "d", "s">> []
         v = "negotiation_failed" -> <<"n", "e", "g", "o", "t", "i", "a",
             "t", "i", "o", "n", "_", "f", "a", "i", "l", "e", "d">> []
         v = "transferred_to_sales" -> <<"t", "r", "a", "n", "s", "f", "e",
             "r", "r", "e", "d", "_", "t", "o", "_", "s", "a", "l", "e",
             "s">> []
         v = "call_dropped" -> <<"c", "a", "l", "l", "_", "d", "r", "o",
             "p", "p", "e", "d">> []
         v = "system_error" -> <<"s", "y", "s", "t", "e", "m", "_", "e",
             "r", "r", "o", "r">> []
         v = "positive" -> <<"p", "o", "s", "i", "t", "i", "v", "e">> []
         v = "neutral" -> <<"n", "e", "u", "t", "r", "a", "l">> []
         v = "negative" -> <<"n", "e", "g", "a", "t", "i", "v", "e">> []
         v = "frustrated" -> <<"f", "r", "u", "s", "t", "r", "a", "t", "e",
             "d">> []
         v = "satisfied" -> <<"s", "a", "t", "i", "s", "f", "i", "e", "d">>

\* Enum(text): the member with this value, None for the ValueError of a
\* text that is the value of no member
EnumOf(members, text) ==
    IF \E v \in members : ValueText(v) = text
    THEN Some(CHOOSE v \in members : ValueText(v) = text)
    ELSE None

\* extracted_data.get(key, default)
GetOr(extracted_data, key, default) ==
    IF key \in DOMAIN extracted_data THEN extracted_data[key] ELSE default

\* the names of the members of CallOutcome: UNKNOWN is not one of them
CallOutcomeMembers ==
    {"SUCCESSFUL_BOOKING", "REJECTED_BY_CARRIER", "FAILED_VERIFICATION",
     "NO_SUITABLE_LOADS", "NEGOTIATION_FAILED", "TRANSFERRED_TO_SALES",
     "CALL_DROPPED", "SYSTEM_ERROR"}

\* CallOutcome.UNKNOWN: the value of the member, None for the
\* AttributeError of a name that is no member of the enum
CallOutcome_UNKNOWN ==
    IF "UNKNOWN" \in CallOutcomeMembers THEN Some("unknown") ELSE None

\* lines 326 and 330-333: the outcome, None when an exception leaves the
\* try block (the handler of ValueError evaluates CallOutcome.UNKNOWN too)
ExtractedOutcome(extracted_data) ==
    LET outcome_str == GetOr(extracted_data, "call_outcome",
                             Some(<<"u", "n", "k", "n", "o", "w", "n">>))
    IN IF TruthyText(outcome_str)
       THEN IF EnumOf(CallOutcome, Lower(outcome_str[1])) # None
            THEN EnumOf(CallOutcome, Lower(outcome_str[1]))
            ELSE CallOutcome_UNKNOWN
       ELSE CallOutcome_UNKNOWN

\* lines 327 and 335-338: the sentiment, NEUTRAL for a missing, empty or
\* unknown carrier_sentiment
ExtractedSentiment(extracted_data) ==
    LET sentiment_str == GetOr(extracted_data, "carrier_sentiment",
                               Some(ValueText("neutral")))
    IN IF TruthyText(sentiment_str)
       THEN IF EnumOf(CallSentiment, Lower(sentiment_str[1])) # None
            THEN EnumOf(CallSentiment, Lower(sentiment_str[1]))
            ELSE Some("neutral")
       ELSE Some("neutral")

\* line 321: hr_<happyrobot_call_id>, or call_<timestamp> without one
CallId(happyrobot_call_id, t) ==
    IF happyrobot_call_id # "" THEN <<"hr", happyrobot_call_id>>
    ELSE <<"call", t>>

\* get_call: whether a row has this primary key
CallExists(rows, call_id) == \E i \in 1..Len(rows) : rows[i].call_id = call_id

\* the table afterwards and whether a call record (rather than None) is
\* returned.  Every exception inside the try block is caught at line 400
\* and None is returned: the AttributeError of CallOutcome.UNKNOWN, the
\* ValidationError of CallCreate for a carrier_mc_number that is None, and
\* the IntegrityError of create_call for a call_id that is stored already.
process_happyrobot_webhook(rows, call_data, t) ==
    LET extracted_data == call_data.extracted_data
        call_id == CallId(call_data.happyrobot_call_id, t)
        carrier_mc == GetOr(extracted_data, "carrier_mc_number", None)
        outcome == ExtractedOutcome(extracted_data)
        sentiment == ExtractedSentiment(extracted_data)
    IN IF outcome = None \/ sentiment = None \/ carrier_mc = None
          \/ CallExists(rows, call_id)
       THEN Returned(rows, FALSE)
       ELSE Returned(Append(rows,
                [call_id |-> call_id,
                 carrier_mc_number |-> carrier_mc[1],
                 happyrobot_call_id |-> call_data.happyrobot_call_id,
                 outcome |-> outcome,
                 sentiment |-> sentiment]), TRUE)

----------------------------------------------------------------------------
(* The handlers of app/api/negotiations.py *)

\* the status the handler finds under this identifier, "none" without a row
PriorStatus(rows, id) ==
    IF get_negotiation(rows, id) = 0 THEN "none"
    ELSE rows[get_negotiation(rows, id)].status

\* what the client sees of a request: the endpoint, the identifier, the
\* HTTP status code and the number reported by cleanup-expired; prior
\* records the status of the negotiation when the request arrived
Response(op, id, code, count, prior) ==
    [op |-> op, id |-> id, status_code |-> code, count |-> count,
     prior |-> prior]

\* no request is in flight
NoSessions == <<>>

Init ==
    /\ negotiations = <<>>
    /\ now = 0
    /\ response = Response("none", "", 0, 0, "none")
    /\ sessions = NoSessions
    /\ calls = <<>>

AlreadyExists_never(rows, data) == FALSE

\* existing_negotiation = get_negotiation(negotiation_data.negotiation_id)
AlreadyExists(rows, data) == get_negotiation(rows, data.negotiation_id) # 0

\* POST /negotiations/
CreateNegotiation(data) ==
    /\ IF AlreadyExists(negotiations, data)
       THEN /\ response' = Response("create", data.negotiation_id,
                                    HTTP_409_CONFLICT, 0,
                                    PriorStatus(negotiations, data.negotiation_id))
            /\ UNCHANGED negotiations
       ELSE /\ negotiations' = create_negotiation(negotiations, data, now)
            /\ response' = Response("create", data.negotiation_id,
                                    HTTP_201_CREATED, 0,
                                    PriorStatus(negotiations, data.negotiation_id))
    /\ UNCHANGED <<now, sessions, calls>>

\* POST /negotiations/{negotiation_id}/counter-offer
MakeCounterOffer(id, offer_amount, offer_by, carrier_feedback) ==
    LET r == make_counter_offer(negotiations, id, offer_amount, offer_by,
                                carrier_feedback, now) IN
    /\ negotiations' = r.rows
    /\ response' = Response("counter_offer", id,
                            IF r.found THEN HTTP_200_OK
                            ELSE HTTP_400_BAD_REQUEST, 0,
                            PriorStatus(negotiations, id))
    /\ UNCHANGED <<now, sessions, calls>>

\* POST /negotiations/{negotiation_id}/accept
AcceptOffer(id, final_rate) ==
    LET r == accept_offer(negotiations, id, final_rate) IN
    /\ negotiations' = r.rows
    /\ response' = Response("accept", id,
                            IF r.found THEN HTTP_200_OK
                            ELSE HTTP_404_NOT_FOUND, 0,
                            PriorStatus(negotiations, id))
    /\ UNCHANGED <<now, sessions, calls>>

\* POST /negotiations/{negotiation_id}/reject
RejectOffer(id, reason) ==
    LET r == reject_offer(negotiations, id, reason) IN
    /\ negotiations' = r.rows
    /\ response' = Response("reject", id,
                            IF r.found THEN HTTP_200_OK
                            ELSE HTTP_404_NOT_FOUND, 0,
                            PriorStatus(negotiations, id))
    /\ UNCHANGED <<now, sessions, calls>>

\* POST /negotiations/cleanup-expired
CleanupExpired ==
    /\ negotiations' = cleanup_expired_negotiations(negotiations, now)
    /\ response' = Response("cleanup", "", HTTP_200_OK,
                            Cardinality(expired_negotiations(negotiations, now)),
                            "none")
    /\ UNCHANGED <<now, sessions, calls>>

\* datetime.utcnow() advances between requests
Tick ==
    /\ now + TickHours <= MaxTime
    /\ now' = now + TickHours
    /\ UNCHANGED <<negotiations, response, sessions, calls>>

Next ==
    \/ \E data \in NegotiationCreate : CreateNegotiation(data)
    \/ \E id \in NegotiationIds, a \in Amounts, by \in OfferBy, fb \in Feedbacks :
          MakeCounterOffer(id, a, by, fb)
    \/ \E id \in NegotiationIds, a \in Amounts : AcceptOffer(id, a)
    \/ \E id \in NegotiationIds, rs \in Reasons : RejectOffer(id, rs)
    \/ CleanupExpired
    \/ Tick

Spec == Init /\ [][Next]_vars

(* Two negotiations side by side: the same handlers, with two identifiers
   and one value for each of the other inputs *)

TwoIds == {"n1", "n2"}

CreateOfTwo ==
    [negotiation_id : TwoIds,
     current_offer_amount : {120000},
     current_offer_by : {"broker"},
     current_offer_type : {"initial"},
     original_rate : OriginalRates,
     max_rounds : {1, 2}]

NextTwo ==
    \/ \E data \in CreateOfTwo : CreateNegotiation(data)
    \/ \E id \in TwoIds : MakeCounterOffer(id, 145000, "carrier", Some("too low"))
    \/ \E id \in TwoIds : AcceptOffer(id, 145000)
    \/ \E id \in TwoIds : RejectOffer(id, Some("no deal"))
    \/ CleanupExpired
    \/ Tick

SpecTwo == Init /\ [][NextTwo]_vars

(* The offer evaluator, on every stored negotiation: a created negotiation
   whose status and current_round were then set through
   PUT /negotiations/{negotiation_id} (update_negotiation), evaluated
   before or after its expiry *)

\* largest current_round of a stored negotiation that is evaluated
MaxEvalRound == 4

EvalOriginalRates == {0, 100001, 150000}

EvalOffers ==
    {-100, 0, 120000, 130000, 134999, 135000, 140000, 142499, 142500,
     145000, 160000}

EvalCreate ==
    [negotiation_id : {"n1"},
     current_offer_amount : {120000},
     current_offer_by : {"carrier"},
     current_offer_type : {"initial"},
     original_rate : EvalOriginalRates,
     max_rounds : 1..MaxRoundsInput]

EvalUpdate == [status : NegotiationStatus, current_round : 1..MaxEvalRound]

StoredNegotiations ==
    {<<>>} \cup
    {update_negotiation(create_negotiation(<<>>, data, 0), "n1", upd) :
        data \in EvalCreate, upd \in EvalUpdate}

InitEval ==
    /\ negotiations \in StoredNegotiations
    /\ now \in {0, MaxTime}
    /\ response = Response("none", "", 0, 0, "none")
    /\ sessions = NoSessions
    /\ calls = <<>>

EvaluateCarrierOffer_expires(id, carrier_offer) ==
    /\ response' = Response("evaluate", id, HTTP_200_OK, 0,
                            PriorStatus(negotiations, id))
                   @@ [carrier_offer |-> carrier_offer,
                       decision |-> evaluate_carrier_offer(negotiations, id,
                                                           carrier_offer)]
    /\ negotiations' = cleanup_expired_negotiations(negotiations, now)
    /\ UNCHANGED <<now, sessions, calls>>

\* POST /negotiations/{negotiation_id}/evaluate: the decision is the
\* response body; carrier_offer records the offer of the request
EvaluateCarrierOffer(id, carrier_offer) ==
    /\ response' = Response("evaluate", id, HTTP_200_OK, 0,
                            PriorStatus(negotiations, id))
                   @@ [carrier_offer |-> carrier_offer,
                       decision |-> evaluate_carrier_offer(negotiations, id,
                                                           carrier_offer)]
    /\ UNCHANGED <<negotiations, now, sessions, calls>>

NextEval ==
    \E id \in TwoIds, carrier_offer \in EvalOffers :
        EvaluateCarrierOffer(id, carrier_offer)

SpecEval == InitEval /\ [][NextEval]_vars

(* The classifiers of CallService, applied to every combination of the
   flags and to transcripts that contain the phrases and keywords, alone,
   together, in capitals and inside longer words *)

Transcripts ==
    {None, Some(<<>>),
     \* "I'll PASS on that": a decline phrase in capitals
     Some(<<"I", "'", "l", "l", " ", "P", "A", "S", "S", " ", "o", "n", " ",
       "t", "h", "a", "t">>),
     \* "Not interested, transfer me": a decline and a transfer phrase
     Some(<<"N", "o", "t", " ", "i", "n", "t", "e", "r", "e", "s", "t", "e",
       "d", ",", " ", "t", "r", "a", "n", "s", "f", "e", "r", " ", "m",
       "e">>),
     \* "transferred, then hung up": a transfer and a disconnect phrase
     Some(<<"t", "r", "a", "n", "s", "f", "e", "r", "r", "e", "d", ",", " ",
       "t", "h", "e", "n", " ", "h", "u", "n", "g", " ", "u", "p">>),
     \* "he hung up": a disconnect phrase
     Some(<<"h", "e", " ", "h", "u", "n", "g", " ", "u", "p">>),
     \* "the passenger seat": pass inside a word
     Some(<<"t", "h", "e", " ", "p", "a", "s", "s", "e", "n", "g", "e", "r",
       " ", "s", "e", "a", "t">>),
     \* "Sales Rep please": a transfer phrase in capitals
     Some(<<"S", "a", "l", "e", "s", " ", "R", "e", "p", " ", "p", "l", "e",
       "a", "s", "e">>),
     \* "call dropped, they declined": a disconnect and a decline phrase
     Some(<<"c", "a", "l", "l", " ", "d", "r", "o", "p", "p", "e", "d", ",",
       " ", "t", "h", "e", "y", " ", "d", "e", "c", "l", "i", "n", "e",
       "d">>),
     \* "ok, rate too low": no phrase and no keyword
     Some(<<"o", "k", ",", " ", "r", "a", "t", "e", " ", "t", "o", "o", " ",
       "l", "o", "w">>),
     \* "This is great, thank you, much appreciated": three positive keywords
     Some(<<"T", "h", "i", "s", " ", "i", "s", " ", "g", "r", "e", "a", "t",
       ",", " ", "t", "h", "a", "n", "k", " ", "y", "o", "u", ",", " ", "m",
       "u", "c", "h", " ", "a", "p", "p", "r", "e", "c", "i", "a", "t", "e",
       "d">>),
     \* "terrible rate": one negative keyword
     Some(<<"t", "e", "r", "r", "i", "b", "l", "e", " ", "r", "a", "t",
       "e">>),
     \* "why is it always awful, never ok": three frustration keywords, one negative keyword
     Some(<<"w", "h", "y", " ", "i", "s", " ", "i", "t", " ", "a", "l", "w",
       "a", "y", "s", " ", "a", "w", "f", "u", "l", ",", " ", "n", "e", "v",
       "e", "r", " ", "o", "k">>),
     \* "Why is it ALWAYS good, never bad": three frustration keywords, one positive keyword
     Some(<<"W", "h", "y", " ", "i", "s", " ", "i", "t", " ", "A", "L", "W",
       "A", "Y", "S", " ", "g", "o", "o", "d", ",", " ", "n", "e", "v", "e",
       "r", " ", "b", "a", "d">>),
     \* "great load but awful rate": one positive and one negative keyword
     Some(<<"g", "r", "e", "a", "t", " ", "l", "o", "a", "d", " ", "b", "u",
       "t", " ", "a", "w", "f", "u", "l", " ", "r", "a", "t", "e">>),
     \* "awful, awful, but good": a negative keyword twice and one positive keyword
     Some(<<"a", "w", "f", "u", "l", ",", " ", "a", "w", "f", "u", "l", ",",
       " ", "b", "u", "t", " ", "g", "o", "o", "d">>),
     \* "why always": two frustration keywords
     Some(<<"w", "h", "y", " ", "a", "l", "w", "a", "y", "s">>),
     \* "angry and frustrated, good bye": two negative keywords, one positive
     Some(<<"a", "n", "g", "r", "y", " ", "a", "n", "d", " ", "f", "r", "u",
       "s", "t", "r", "a", "t", "e", "d", ",", " ", "g", "o", "o", "d", " ",
       "b", "y", "e">>)}

\* the result of a classifier call, with its arguments
Classified(op, transcript, negotiation_successful, carrier_verified, loads_available, result) ==
    Response(op, "", 0, 0, "none")
    @@ [transcript |-> transcript,
        negotiation_successful |-> negotiation_successful,
        carrier_verified |-> carrier_verified,
        loads_available |-> loads_available,
        result |-> result]

ClassifyCallOutcome(transcript, negotiation_successful, carrier_verified, loads_available) ==
    /\ response' = Classified("classify_outcome", transcript,
                              negotiation_successful, carrier_verified,
                              loads_available,
                              classify_call_outcome(transcript,
                                  negotiation_successful, carrier_verified,
                                  loads_available))
    /\ UNCHANGED <<negotiations, now, sessions, calls>>

ClassifyCallSentiment(transcript) ==
    /\ response' = Classified("classify_sentiment", transcript, FALSE, FALSE,
                              FALSE, classify_call_sentiment(transcript))
    /\ UNCHANGED <<negotiations, now, sessions, calls>>

NextClassify ==
    \/ \E transcript \in Transcripts,
          negotiation_successful \in BOOLEAN, carrier_verified \in BOOLEAN,
          loads_available \in BOOLEAN :
          ClassifyCallOutcome(transcript, negotiation_successful,
                              carrier_verified, loads_available)
    \/ \E transcript \in Transcripts : ClassifyCallSentiment(transcript)

SpecClassify == Init /\ [][NextClassify]_vars

(* Two requests in flight.  Every request has its own database session
   (get_database), and a service method reads the row into its session
   before it writes: make_counter_offer reads at line 107 and decides on
   what it read, update_negotiation sets the fields of its update and
   commits (lines 84-89), and cleanup_expired_negotiations selects its rows
   (lines 255-260) before it sets their status and commits.  Here a request
   takes two steps, the read and the commit, and the steps of two requests
   interleave; the clock may advance in between. *)

Requests == {"a", "b"}

\* a session with no request
Idle ==
    [op |-> "idle", pc |-> "idle", id |-> "", prior |-> "none",
     update |-> None, found |-> FALSE, selected |-> {}]

\* a session that has read and is about to commit: prior is the status it
\* read, update the NegotiationUpdate it goes on to write, found whether
\* the caller gets a negotiation back, selected the rows of a cleanup
Reading(op, id, prior, update, found, selected) ==
    [op |-> op, pc |-> "commit", id |-> id, prior |-> prior,
     update |-> update, found |-> found, selected |-> selected]

InitConc ==
    /\ negotiations = <<>>
    /\ now = 0
    /\ response = Response("none", "", 0, 0, "none")
    /\ sessions = [r \in Requests |-> Idle]
    /\ calls = <<>>

\* lines 111-132 of make_counter_offer: the update the method goes on to
\* write for the negotiation n it has read
CounterOfferDecision(n, offer_amount, offer_by, carrier_feedback, t) ==
    IF IsExpired(n, t) THEN ExpiredUpdate
    ELSE IF RoundLimitReached(n) THEN RoundLimitUpdate
    ELSE CounterOfferUpdate(n, offer_amount, offer_by, carrier_feedback)

\* make_counter_offer up to its call of update_negotiation
ReadCounterOffer(r, id, offer_amount, offer_by, carrier_feedback) ==
    LET i == get_negotiation(negotiations, id) IN
    /\ sessions[r].pc = "idle"
    /\ IF NotActive(negotiations, i)
       THEN /\ response' = Response("counter_offer", id, HTTP_400_BAD_REQUEST,
                                    0, PriorStatus(negotiations, id))
            /\ UNCHANGED sessions
       ELSE /\ sessions' =
                 [sessions EXCEPT ![r] =
                     Reading("counter_offer", id, negotiations[i].status,
                             Some(CounterOfferDecision(negotiations[i],
                                      offer_amount, offer_by,
                                      carrier_feedback, now)),
                             /\ ~IsExpired(negotiations[i], now)
                             /\ ~RoundLimitReached(negotiations[i]),
                             {})]
            /\ UNCHANGED response
    /\ UNCHANGED <<negotiations, now, calls>>

\* the lookup of update_negotiation (lines 80-82)
ReadUpdate(r, op, id, negotiation_update) ==
    LET i == get_negotiation(negotiations, id) IN
    /\ IF i = 0
       THEN /\ response' = Response(op, id, HTTP_404_NOT_FOUND, 0, "none")
            /\ UNCHANGED sessions
       ELSE /\ sessions' =
                 [sessions EXCEPT ![r] =
                     Reading(op, id, negotiations[i].status,
                             Some(negotiation_update), TRUE, {})]
            /\ UNCHANGED response
    /\ UNCHANGED <<negotiations, now, calls>>

\* accept_offer up to the lookup of update_negotiation
ReadAccept(r, id, final_rate) ==
    /\ sessions[r].pc = "idle"
    /\ ReadUpdate(r, "accept", id, AcceptUpdate(final_rate))

\* reject_offer up to the lookup of update_negotiation
ReadReject(r, id, reason) ==
    /\ sessions[r].pc = "idle"
    /\ ReadUpdate(r, "reject", id, RejectUpdate(reason))

\* the query of cleanup_expired_negotiations (lines 255-260)
ReadCleanup(r) ==
    /\ sessions[r].pc = "idle"
    /\ sessions' =
         [sessions EXCEPT ![r] =
             Reading("cleanup", "", "none", None, TRUE,
                     expired_negotiations(negotiations, now))]
    /\ UNCHANGED <<negotiations, now, response, calls>>

commit_update_increment(rows, id, negotiation_update) ==
    LET i == get_negotiation(rows, id) IN
    IF "current_round" \in DOMAIN negotiation_update
    THEN update_negotiation(rows, id,
             [f \in DOMAIN negotiation_update |->
                 IF f = "current_round" THEN rows[i].current_round + 1
                 ELSE negotiation_update[f]])
    ELSE update_negotiation(rows, id, negotiation_update)

\* setattr of the fields of the update and commit (lines 84-89): the
\* UPDATE carries the values the session computed from what it read
commit_update(rows, id, negotiation_update) ==
    update_negotiation(rows, id, negotiation_update)

\* the rest of update_negotiation, and the response of the handler
CommitUpdate(r) ==
    LET s == sessions[r] IN
    /\ s.pc = "commit"
    /\ s.op \in {"counter_offer", "accept", "reject"}
    /\ negotiations' = commit_update(negotiations, s.id, s.update[1])
    /\ response' = Response(s.op, s.id,
                            IF s.found THEN HTTP_200_OK
                            ELSE HTTP_400_BAD_REQUEST, 0, s.prior)
    /\ sessions' = [sessions EXCEPT ![r] = Idle]
    /\ UNCHANGED <<now, calls>>

\* the loop and commit of cleanup_expired_negotiations (lines 262-267)
CommitCleanup(r) ==
    LET s == sessions[r] IN
    /\ s.pc = "commit"
    /\ s.op = "cleanup"
    /\ negotiations' =
         [i \in 1..Len(negotiations) |->
             IF i \in s.selected
             THEN [negotiations[i] EXCEPT !.status = "expired"]
             ELSE negotiations[i]]
    /\ response' = Response("cleanup", "", HTTP_200_OK,
                            Cardinality(s.selected), "none")
    /\ sessions' = [sessions EXCEPT ![r] = Idle]
    /\ UNCHANGED <<now, calls>>

CreateOfConc ==
    [negotiation_id : NegotiationIds,
     current_offer_amount : {120000},
     current_offer_by : {"broker"},
     current_offer_type : {"initial"},
     original_rate : OriginalRates,
     max_rounds : 1..MaxRoundsInput]

NextConc ==
    \/ \E data \in CreateOfConc : CreateNegotiation(data)
    \/ \E r \in Requests, id \in NegotiationIds, a \in Amounts :
          ReadCounterOffer(r, id, a, "carrier", None)
    \/ \E r \in Requests, id \in NegotiationIds : ReadAccept(r, id, 145000)
    \/ \E r \in Requests, id \in NegotiationIds :
          ReadReject(r, id, Some("no deal"))
    \/ \E r \in Requests : ReadCleanup(r)
    \/ \E r \in Requests : CommitUpdate(r)
    \/ \E r \in Requests : CommitCleanup(r)
    \/ Tick

SpecConc == InitConc /\ [][NextConc]_vars

(* The handlers one at a time, with a clock that keeps advancing and a
   cleanup-expired that is run whenever it has something to expire.  A
   negotiation is created only while the clock of the model still reaches a
   time after its expiry. *)

\* the clock reaches a time after the expiry of a negotiation created at t
ExpiryInReach(t) ==
    \E later \in (ExpiresAt(t) + 1)..MaxTime : (later - t) % TickHours = 0

CreateInReach(data) ==
    /\ ExpiryInReach(now)
    /\ CreateNegotiation(data)

NextLive ==
    \/ \E data \in CreateOfConc : CreateInReach(data)
    \/ \E id \in NegotiationIds, a \in Amounts :
          MakeCounterOffer(id, a, "carrier", None)
    \/ \E id \in NegotiationIds : AcceptOffer(id, 145000)
    \/ \E id \in NegotiationIds, rs \in Reasons : RejectOffer(id, rs)
    \/ CleanupExpired
    \/ Tick

SpecLive ==
    /\ Init
    /\ [][NextLive]_vars
    /\ WF_vars(Tick)
    /\ WF_vars(CleanupExpired)

(* The handlers one at a time, together with the generic update of
   PUT /negotiations/{negotiation_id} *)

\* the fields of NegotiationUpdate
NegotiationUpdateFields ==
    {"status", "current_round", "current_offer_amount", "current_offer_by",
     "current_offer_type", "final_agreed_rate", "broker_notes",
     "carrier_feedback", "expires_at"}

NegotiationUpdate_allow_extra(body) == body

\* validation of the request body as a NegotiationUpdate: a key that is not
\* a field of the model is ignored, and model_dump(exclude_unset=True)
\* keeps the fields the body sets
NegotiationUpdate(body) ==
    [f \in DOMAIN body \cap NegotiationUpdateFields |-> body[f]]

\* request bodies of the PUT: each sets one or two keys
UpdateBodies ==
    {[expires_at |-> None], [expires_at |-> Some(1)],
     [expires_at |-> Some(100)], [max_rounds |-> 5],
     [status |-> "active"], [broker_notes |-> Some("called back")],
     [current_round |-> 1, max_rounds |-> 5]}

\* PUT /negotiations/{negotiation_id}
UpdateNegotiation(id, body) ==
    /\ negotiations' = update_negotiation(negotiations, id,
                                          NegotiationUpdate(body))
    /\ response' = Response("update", id,
                            IF get_negotiation(negotiations, id) # 0
                            THEN HTTP_200_OK ELSE HTTP_404_NOT_FOUND, 0,
                            PriorStatus(negotiations, id))
                   @@ [body |-> body]
    /\ UNCHANGED <<now, sessions, calls>>

NextUpdate ==
    \/ \E data \in CreateOfConc : CreateNegotiation(data)
    \/ \E id \in NegotiationIds :
          MakeCounterOffer(id, 145000, "carrier", Some("too low"))
    \/ \E id \in NegotiationIds : AcceptOffer(id, 145000)
    \/ \E id \in NegotiationIds : RejectOffer(id, Some("no deal"))
    \/ \E id \in NegotiationIds, body \in UpdateBodies :
          UpdateNegotiation(id, body)
    \/ CleanupExpired
    \/ Tick

SpecUpdate == Init /\ [][NextUpdate]_vars

(* The webhook of the call platform (POST /webhook/happyrobot): payloads
   whose extracted call_outcome and carrier_sentiment are missing, null,
   known (in capitals) or unknown, at one time of the clock *)

\* a record with no key
NoKeys == [key \in {} |-> None]

OutcomeInputs ==
    {NoKeys, [call_outcome |-> None],
     \* "Successful_Booking"
     [call_outcome |->
        Some(<<"S", "u", "c", "c", "e", "s", "s", "f", "u", "l", "_", "B",
               "o", "o", "k", "i", "n", "g">>)],
     \* "booked"
     [call_outcome |-> Some(<<"b", "o", "o", "k", "e", "d">>)]}

SentimentInputs ==
    {NoKeys,
     \* "Positive"
     [carrier_sentiment |->
        Some(<<"P", "o", "s", "i", "t", "i", "v", "e">>)],
     \* "happy"
     [carrier_sentiment |-> Some(<<"h", "a", "p", "p", "y">>)]}

CarrierInputs == {NoKeys, [carrier_mc_number |-> Some("MC123456")]}

\* call_data of the payload, with extracted_data inside it
CallData ==
    {[happyrobot_call_id |-> id, extracted_data |-> o @@ s @@ c] :
        id \in {"", "c1"}, o \in OutcomeInputs, s \in SentimentInputs,
        c \in CarrierInputs}

EventTypes == {"call_started", "call_ended", "call_completed"}

\* POST /webhook/happyrobot: a call_ended or call_completed event is
\* processed; the response is "received" whatever the result
HappyrobotWebhook(event_type, call_data) ==
    LET r == IF event_type \in {"call_ended", "call_completed"}
             THEN process_happyrobot_webhook(calls, call_data, now)
             ELSE Returned(calls, FALSE) IN
    /\ calls' = r.rows
    /\ response' = Response("webhook", call_data.happyrobot_call_id,
                            HTTP_200_OK, 0, "none")
                   @@ [event_type |-> event_type,
                       extracted_data |-> call_data.extracted_data,
                       result |-> r.found]
    /\ UNCHANGED <<negotiations, now, sessions>>

NextWebhook ==
    \E event_type \in EventTypes, call_data \in CallData :
        HappyrobotWebhook(event_type, call_data)

SpecWebhook == Init /\ [][NextWebhook]_vars

----------------------------------------------------------------------------
(* Properties *)

Has(id) == get_negotiation(negotiations, id) # 0

\* the stored negotiation with this identifier
Neg(id) == negotiations[get_negotiation(negotiations, id)]

Terminal(status) == status \in {"accepted", "rejected", "expired"}

\* expires_at lies before the current time
Passed(n) == n.expires_at # None /\ n.expires_at[1] < now

\* the step is a request to this endpoint for this identifier: every
\* handler answers with its own op, and only the clock leaves the
\* response alone
CallOf(op, id) == response'.op = op /\ response'.id = id /\ now' = now

SameFields(n, m, fields) == \A f \in fields : n[f] = m[f]

OfferFields == {"current_offer_amount", "current_offer_by", "current_offer_type"}

\* C1: in every reachable state, a negotiation whose status is ACTIVE has
\* current_round <= max_rounds.
C1_ActiveRoundWithinMax ==
    \A i \in 1..Len(negotiations) :
        negotiations[i].status = "active"
            => negotiations[i].current_round <= negotiations[i].max_rounds

\* a counter offer has just brought an ACTIVE negotiation to its last round
C1_Witness ==
    /\ response.op = "counter_offer"
    /\ response.status_code = HTTP_200_OK
    /\ Has(response.id)
    /\ Neg(response.id).status = "active"
    /\ Neg(response.id).max_rounds >= 2
    /\ Neg(response.id).current_round = Neg(response.id).max_rounds

\* C2: a counter offer on an ACCEPTED, REJECTED or EXPIRED negotiation
\* fails (no negotiation is returned: HTTP 400) and leaves status,
\* current_round, the current offer fields and carrier_feedback unchanged.
C2_TerminalCounterOfferFails ==
    [][\A id \in NegotiationIds :
          (CallOf("counter_offer", id) /\ Has(id) /\ Terminal(Neg(id).status))
          => /\ response'.status_code = HTTP_400_BAD_REQUEST
             /\ Has(id)'
             /\ SameFields(Neg(id), Neg(id)',
                    {"status", "current_round", "carrier_feedback"}
                        \cup OfferFields)]_vars

\* a counter offer was refused on an ACCEPTED negotiation
C2_Witness ==
    /\ response.op = "counter_offer"
    /\ response.status_code = HTTP_400_BAD_REQUEST
    /\ response.prior = "accepted"
    /\ Has(response.id)
    /\ Neg(response.id).status = "accepted"
    /\ Neg(response.id).current_round < Neg(response.id).max_rounds

\* C3: Accept or Reject on an ACCEPTED, REJECTED or EXPIRED negotiation
\* fails (InvalidState: an error status code) and changes neither status,
\* final_agreed_rate, current_offer_type nor broker_notes.
C3_TerminalAcceptRejectFails ==
    [][\A id \in NegotiationIds :
          ((CallOf("accept", id) \/ CallOf("reject", id))
              /\ Has(id) /\ Terminal(Neg(id).status))
          => /\ response'.status_code >= HTTP_400_BAD_REQUEST
             /\ Has(id)'
             /\ SameFields(Neg(id), Neg(id)',
                    {"status", "final_agreed_rate", "current_offer_type",
                     "broker_notes"})]_vars

\* C4: Accept or Reject on an ACTIVE negotiation whose expires_at has
\* passed fails (Expired: an error status code) and leaves the negotiation
\* EXPIRED, never ACCEPTED or REJECTED.
C4_ExpiredAcceptRejectFails ==
    [][\A id \in NegotiationIds :
          ((CallOf("accept", id) \/ CallOf("reject", id))
              /\ Has(id) /\ Neg(id).status = "active" /\ Passed(Neg(id)))
          => /\ response'.status_code >= HTTP_400_BAD_REQUEST
             /\ Has(id)'
             /\ Neg(id)'.status = "expired"]_vars

\* C5 as stated: Create on an unused identifier yields status = ACTIVE,
\* current_round = 1, current_offer_type = INITIAL and expires_at =
\* creation time + 24 hours.
C5_CreateYieldsInitial ==
    [][\A id \in NegotiationIds :
          (CallOf("create", id) /\ ~Has(id))
          => /\ Has(id)'
             /\ Neg(id)'.status = "active"
             /\ Neg(id)'.current_round = 1
             /\ Neg(id)'.current_offer_type = "initial"
             /\ Neg(id)'.expires_at = Some(now + 24)]_vars

\* C5 (amended): Create on an unused identifier yields status = ACTIVE,
\* current_round = 1, expires_at = creation time + 24 hours, and the
\* current_offer_type, current_offer_amount, current_offer_by,
\* original_rate and max_rounds the caller supplied.
C5_CreateYieldsSuppliedType ==
    [][\A id \in NegotiationIds :
          (CallOf("create", id) /\ ~Has(id))
          => \A data \in NegotiationCreate :
                (data.negotiation_id = id /\ CreateNegotiation(data))
                => LET n == Neg(id)' IN
                   /\ Has(id)'
                   /\ response'.status_code = HTTP_201_CREATED
                   /\ n.status = "active"
                   /\ n.current_round = 1
                   /\ n.expires_at = Some(now + 24)
                   /\ n.current_offer_type = data.current_offer_type
                   /\ n.current_offer_amount = data.current_offer_amount
                   /\ n.current_offer_by = data.current_offer_by
                   /\ n.original_rate = data.original_rate
                   /\ n.max_rounds = data.max_rounds]_vars

\* a negotiation has just been created, after the clock has advanced, with
\* an offer type other than INITIAL
C5_Witness ==
    /\ response.op = "create"
    /\ response.status_code = HTTP_201_CREATED
    /\ now > 0
    /\ Has(response.id)
    /\ Neg(response.id).status = "active"
    /\ Neg(response.id).current_round = 1
    /\ Neg(response.id).current_offer_type = "final"
    /\ Neg(response.id).expires_at = Some(now + 24)

\* C6: Create with an identifier that already exists fails with HTTP 409
\* and leaves the table unchanged, whatever the status of the existing
\* negotiation; there is never more than one negotiation per identifier.
C6_DuplicateCreateConflicts ==
    /\ [](\A i, j \in 1..Len(negotiations) :
            negotiations[i].negotiation_id = negotiations[j].negotiation_id
                => i = j)
    /\ [][\A id \in TwoIds :
            (CallOf("create", id) /\ Has(id))
            => /\ response'.status_code = HTTP_409_CONFLICT
               /\ negotiations' = negotiations]_vars

\* a Create was refused for the identifier of an ACCEPTED negotiation,
\* with a second negotiation in the table
C6_Witness ==
    /\ response.op = "create"
    /\ response.status_code = HTTP_409_CONFLICT
    /\ response.prior = "accepted"
    /\ Len(negotiations) = 2
    /\ Neg(response.id).status = "accepted"

\* C7: a counter offer on an ACTIVE negotiation whose expires_at has
\* passed sets status to EXPIRED, fails, and leaves current_round and the
\* current offer fields unchanged, also when current_round >= max_rounds.
C7_ExpiredCounterOfferExpires ==
    [][\A id \in NegotiationIds :
          (CallOf("counter_offer", id) /\ Has(id)
              /\ Neg(id).status = "active" /\ Passed(Neg(id)))
          => /\ response'.status_code = HTTP_400_BAD_REQUEST
             /\ Has(id)'
             /\ Neg(id)'.status = "expired"
             /\ SameFields(Neg(id), Neg(id)',
                    {"current_round"} \cup OfferFields)]_vars

\* a counter offer found an ACTIVE negotiation both expired and at its
\* round limit, and left it EXPIRED
C7_Witness ==
    /\ response.op = "counter_offer"
    /\ response.status_code = HTTP_400_BAD_REQUEST
    /\ response.prior = "active"
    /\ Has(response.id)
    /\ Neg(response.id).status = "expired"
    /\ Passed(Neg(response.id))
    /\ Neg(response.id).current_round >= Neg(response.id).max_rounds

\* C8: a counter offer on an ACTIVE, unexpired negotiation with
\* current_round >= max_rounds sets status to REJECTED, fails, and leaves
\* current_round and the current offer fields unchanged.
C8_RoundLimitCounterOfferRejects ==
    [][\A id \in NegotiationIds :
          (CallOf("counter_offer", id) /\ Has(id)
              /\ Neg(id).status = "active" /\ ~Passed(Neg(id))
              /\ Neg(id).current_round >= Neg(id).max_rounds)
          => /\ response'.status_code = HTTP_400_BAD_REQUEST
             /\ Has(id)'
             /\ Neg(id)'.status = "rejected"
             /\ SameFields(Neg(id), Neg(id)',
                    {"current_round"} \cup OfferFields)]_vars

\* a counter offer found an ACTIVE negotiation at its round limit, after
\* earlier counter offers, and left it REJECTED
C8_Witness ==
    /\ response.op = "counter_offer"
    /\ response.status_code = HTTP_400_BAD_REQUEST
    /\ response.prior = "active"
    /\ Has(response.id)
    /\ Neg(response.id).status = "rejected"
    /\ Neg(response.id).current_round = Neg(response.id).max_rounds
    /\ Neg(response.id).current_round >= 2
    /\ Neg(response.id).current_offer_type = "counter"

\* C9: a counter offer on an ACTIVE, unexpired negotiation with
\* current_round < max_rounds succeeds: current_round increases by 1,
\* current_offer_amount and current_offer_by take the supplied values,
\* current_offer_type becomes COUNTER, status stays ACTIVE, and
\* carrier_feedback changes only when feedback is supplied, to that
\* feedback.
C9_CounterOfferSucceeds ==
    [][\A id \in NegotiationIds :
          (CallOf("counter_offer", id) /\ Has(id)
              /\ Neg(id).status = "active" /\ ~Passed(Neg(id))
              /\ Neg(id).current_round < Neg(id).max_rounds)
          => \A a \in Amounts, by \in OfferBy, fb \in Feedbacks :
                MakeCounterOffer(id, a, by, fb)
                => LET n == Neg(id)' IN
                   /\ response'.status_code = HTTP_200_OK
                   /\ Has(id)'
                   /\ n.status = "active"
                   /\ n.current_round = Neg(id).current_round + 1
                   /\ n.current_offer_amount = a
                   /\ n.current_offer_by = by
                   /\ n.current_offer_type = "counter"
                   /\ (n.carrier_feedback # Neg(id).carrier_feedback
                          => fb # None /\ n.carrier_feedback = fb)
                   /\ (fb \notin {None, Some("")} => n.carrier_feedback = fb)]_vars

\* a counter offer with feedback has just moved a negotiation to round 2
C9_Witness ==
    /\ response.op = "counter_offer"
    /\ response.status_code = HTTP_200_OK
    /\ Has(response.id)
    /\ Neg(response.id).status = "active"
    /\ Neg(response.id).current_round = 2
    /\ Neg(response.id).current_offer_type = "counter"
    /\ Neg(response.id).carrier_feedback = Some("too low")

\* C10: Accept on an ACTIVE negotiation sets status = ACCEPTED,
\* final_agreed_rate = final_rate and current_offer_type = FINAL at any
\* round, and leaves current_round, current_offer_amount,
\* current_offer_by, max_rounds, original_rate and expires_at unchanged.
C10_AcceptActive ==
    [][\A id \in NegotiationIds :
          (CallOf("accept", id) /\ Has(id) /\ Neg(id).status = "active")
          => \A final_rate \in Amounts :
                AcceptOffer(id, final_rate)
                => LET n == Neg(id)' IN
                   /\ response'.status_code = HTTP_200_OK
                   /\ Has(id)'
                   /\ n.status = "accepted"
                   /\ n.final_agreed_rate = Some(final_rate)
                   /\ n.current_offer_type = "final"
                   /\ SameFields(Neg(id), n,
                          {"current_round", "current_offer_amount",
                           "current_offer_by", "max_rounds", "original_rate",
                           "expires_at"})]_vars

\* an ACTIVE negotiation has just been accepted in its last round, at a
\* rate other than the current offer
C10_Witness ==
    /\ response.op = "accept"
    /\ response.status_code = HTTP_200_OK
    /\ response.prior = "active"
    /\ Has(response.id)
    /\ Neg(response.id).status = "accepted"
    /\ Neg(response.id).max_rounds >= 2
    /\ Neg(response.id).current_round = Neg(response.id).max_rounds
    /\ Neg(response.id).final_agreed_rate # Some(Neg(response.id).current_offer_amount)

\* C11: Accept, Reject and CounterOffer on an identifier that has no
\* negotiation fail (Accept and Reject with 404 Not Found, CounterOffer
\* with 400), create no record and change no existing negotiation.
C11_UnknownIdFails ==
    [][\A id \in TwoIds :
          (~Has(id) /\ (CallOf("accept", id) \/ CallOf("reject", id)
                           \/ CallOf("counter_offer", id)))
          => /\ negotiations' = negotiations
             /\ response'.op \in {"accept", "reject"}
                    => response'.status_code = HTTP_404_NOT_FOUND
             /\ response'.op = "counter_offer"
                    => response'.status_code = HTTP_400_BAD_REQUEST]_vars

\* an Accept for an unknown identifier was refused while another
\* negotiation is stored
C11_Witness ==
    /\ response.op = "accept"
    /\ response.status_code = HTTP_404_NOT_FOUND
    /\ response.prior = "none"
    /\ ~Has(response.id)
    /\ Len(negotiations) = 1
    /\ negotiations[1].status = "active"

\* C12: Reject on an ACTIVE negotiation sets status = REJECTED;
\* broker_notes becomes the reason when a non-empty reason is given and is
\* unchanged otherwise; final_agreed_rate, current_round and the current
\* offer fields are unchanged.
C12_RejectActive ==
    [][\A id \in NegotiationIds :
          (CallOf("reject", id) /\ Has(id) /\ Neg(id).status = "active")
          => \A reason \in Reasons :
                RejectOffer(id, reason)
                => LET n == Neg(id)' IN
                   /\ response'.status_code = HTTP_200_OK
                   /\ Has(id)'
                   /\ n.status = "rejected"
                   /\ n.broker_notes =
                        IF reason \notin {None, Some("")} THEN reason
                        ELSE Neg(id).broker_notes
                   /\ SameFields(Neg(id), n,
                          {"final_agreed_rate", "current_round"}
                              \cup OfferFields)]_vars

\* an ACTIVE negotiation in its second round has just been rejected with a
\* reason
C12_Witness ==
    /\ response.op = "reject"
    /\ response.status_code = HTTP_200_OK
    /\ response.prior = "active"
    /\ Has(response.id)
    /\ Neg(response.id).status = "rejected"
    /\ Neg(response.id).broker_notes = Some("no deal")
    /\ Neg(response.id).current_round = 2
    /\ Neg(response.id).final_agreed_rate = None

\* C13: CleanupExpired sets to EXPIRED exactly the negotiations that are
\* ACTIVE with expires_at in the past, returns their number, and leaves
\* every other negotiation, and every other field, as it was.
C13_CleanupExactlyExpired ==
    [][CallOf("cleanup", "")
          => /\ Len(negotiations') = Len(negotiations)
             /\ \A i \in 1..Len(negotiations) :
                    negotiations'[i] =
                        IF negotiations[i].status = "active"
                               /\ Passed(negotiations[i])
                        THEN [negotiations[i] EXCEPT !.status = "expired"]
                        ELSE negotiations[i]
             /\ response'.count =
                    Cardinality({i \in 1..Len(negotiations) :
                                    negotiations[i].status = "active"
                                        /\ Passed(negotiations[i])})]_vars

\* a cleanup has just expired one negotiation and left an ACCEPTED one,
\* whose expires_at has also passed, ACCEPTED
C13_Witness ==
    /\ response.op = "cleanup"
    /\ response.count = 1
    /\ Len(negotiations) = 2
    /\ \E i, j \in 1..2 :
          /\ negotiations[i].status = "expired"
          /\ negotiations[j].status = "accepted"
          /\ Passed(negotiations[j])

\* C14: after a CleanupExpired, a second CleanupExpired at the same time,
\* with no request in between, returns 0 and leaves the table unchanged.
C14_CleanupIdempotent ==
    [][CallOf("cleanup", "")
          => /\ Cardinality(expired_negotiations(negotiations', now')) = 0
             /\ cleanup_expired_negotiations(negotiations', now')
                    = negotiations']_vars

\* a cleanup found nothing to expire where a negotiation is already
\* EXPIRED and another one is past its expiry
C14_Witness ==
    /\ response.op = "cleanup"
    /\ response.count = 0
    /\ Len(negotiations) = 2
    /\ \E i, j \in 1..2 :
          /\ negotiations[i].status = "expired"
          /\ negotiations[j].status = "rejected"
          /\ Passed(negotiations[j])

\* the threshold the specification gives for a negotiation, in hundredths
\* of a cent: 0.90 x original_rate when current_round >= max_rounds - 1,
\* else 0.95 x original_rate
StatedMinAcceptable(n) ==
    IF n.current_round >= n.max_rounds - 1
    THEN 90 * n.original_rate
    ELSE 95 * n.original_rate

\* C16: Evaluate changes no field of any stored negotiation, whatever its
\* status, round and expiry, and whatever the offer.
C16_EvaluateNoSideEffect ==
    [][\A id \in TwoIds :
          CallOf("evaluate", id) => negotiations' = negotiations]_vars

\* an ACTIVE negotiation past its expiry and past its round limit was
\* evaluated and is still ACTIVE
C16_Witness ==
    /\ response.op = "evaluate"
    /\ Has(response.id)
    /\ Neg(response.id).status = "active"
    /\ Passed(Neg(response.id))
    /\ Neg(response.id).current_round > Neg(response.id).max_rounds

\* C17: whenever Evaluate returns a counter_offer_amount, it is >= the
\* min_acceptable of the current round.
C17_CounterAtLeastMin ==
    [][\A id \in TwoIds :
          (CallOf("evaluate", id) /\ Has(id)
              /\ response'.decision.counter_offer_amount # None)
          => response'.decision.counter_offer_amount[1]
                >= StatedMinAcceptable(Neg(id))]_vars

\* a counter offer strictly above the minimum: 1400.00 offered on 1500.00
\* in round 1 of 3 is countered with 1450.00
C17_Witness ==
    /\ response.op = "evaluate"
    /\ Has(response.id)
    /\ Neg(response.id).original_rate = 150000
    /\ Neg(response.id).current_round = 1
    /\ Neg(response.id).max_rounds = 3
    /\ response.carrier_offer = 140000
    /\ response.decision.counter_offer_amount = Some(14500000)

\* C18: for an existing negotiation, Evaluate returns should_accept = true
\* if and only if carrier_offer >= min_acceptable, and then
\* is_final_offer = true.
C18_AcceptIffAtLeastMin ==
    [][\A id \in TwoIds :
          (CallOf("evaluate", id) /\ Has(id))
          => /\ response'.decision.should_accept
                    <=> (100 * response'.carrier_offer
                            >= StatedMinAcceptable(Neg(id)))
             /\ response'.decision.should_accept
                    => response'.decision.is_final_offer]_vars

\* 1450.00 offered on 1500.00 in round 1 of 3 is accepted
C18_Witness ==
    /\ response.op = "evaluate"
    /\ Has(response.id)
    /\ Neg(response.id).original_rate = 150000
    /\ Neg(response.id).current_round = 1
    /\ Neg(response.id).max_rounds = 3
    /\ response.carrier_offer = 145000
    /\ response.decision.should_accept
    /\ response.decision.is_final_offer

\* C19: when current_round >= max_rounds and carrier_offer <
\* min_acceptable, Evaluate returns should_accept = false, is_final_offer
\* = true and counter_offer_amount = 0.90 x original_rate.
C19_FinalCounterAtMin ==
    [][\A id \in TwoIds :
          (CallOf("evaluate", id) /\ Has(id)
              /\ Neg(id).current_round >= Neg(id).max_rounds
              /\ 100 * response'.carrier_offer < StatedMinAcceptable(Neg(id)))
          => /\ ~response'.decision.should_accept
             /\ response'.decision.is_final_offer
             /\ response'.decision.counter_offer_amount
                    = Some(90 * Neg(id).original_rate)]_vars

\* 1300.00 offered on 1500.00 in round 3 of 3 gets the final counter
\* 1350.00
C19_Witness ==
    /\ response.op = "evaluate"
    /\ Has(response.id)
    /\ Neg(response.id).original_rate = 150000
    /\ Neg(response.id).current_round = 3
    /\ Neg(response.id).max_rounds = 3
    /\ response.carrier_offer = 130000
    /\ ~response.decision.should_accept
    /\ response.decision.is_final_offer
    /\ response.decision.counter_offer_amount = Some(13500000)

\* C20: when current_round < max_rounds and carrier_offer <
\* min_acceptable, Evaluate returns should_accept = false, is_final_offer
\* = false and counter_offer_amount = max((carrier_offer + original_rate)
\* / 2, min_acceptable).
C20_CounterSplitsDifference ==
    [][\A id \in TwoIds :
          (CallOf("evaluate", id) /\ Has(id)
              /\ Neg(id).current_round < Neg(id).max_rounds
              /\ 100 * response'.carrier_offer < StatedMinAcceptable(Neg(id)))
          => LET midpoint == 50 * (response'.carrier_offer
                                      + Neg(id).original_rate)
                 floor == StatedMinAcceptable(Neg(id))
             IN /\ ~response'.decision.should_accept
                /\ ~response'.decision.is_final_offer
                /\ response'.decision.counter_offer_amount
                       = Some(IF midpoint >= floor THEN midpoint ELSE floor)]_vars

\* 1200.00 offered on 1500.00 in round 1 of 3 is countered with 1425.00
C20_Witness ==
    /\ response.op = "evaluate"
    /\ Has(response.id)
    /\ Neg(response.id).original_rate = 150000
    /\ Neg(response.id).current_round = 1
    /\ Neg(response.id).max_rounds = 3
    /\ response.carrier_offer = 120000
    /\ ~response.decision.should_accept
    /\ ~response.decision.is_final_offer
    /\ response.decision.counter_offer_amount = Some(14250000)

\* the lower-cased text of a classifier call, empty for None
ClassifiedText ==
    IF response.transcript = None THEN <<>> ELSE Lower(response.transcript[1])

\* C21: classify_call_outcome applies its rules in strict priority:
\* unverified carrier, then no loads, then a successful negotiation, then
\* a decline phrase, a transfer phrase, a disconnect phrase, and
\* negotiation_failed otherwise (also for an empty or absent transcript).
C21_OutcomePriority ==
    response.op = "classify_outcome"
    => response.result =
         IF ~response.carrier_verified THEN "failed_verification"
         ELSE IF ~response.loads_available THEN "no_suitable_loads"
         ELSE IF response.negotiation_successful THEN "successful_booking"
         ELSE IF AnyPhrase(ClassifiedText, DeclinePhrases)
         THEN "rejected_by_carrier"
         ELSE IF AnyPhrase(ClassifiedText, TransferPhrases)
         THEN "transferred_to_sales"
         ELSE IF AnyPhrase(ClassifiedText, DisconnectPhrases)
         THEN "call_dropped"
         ELSE "negotiation_failed"

\* a transcript with a decline and a transfer phrase, on a verified
\* carrier with loads and no agreement, is rejected_by_carrier
C21_Witness ==
    /\ response.op = "classify_outcome"
    /\ response.carrier_verified
    /\ response.loads_available
    /\ ~response.negotiation_successful
    /\ AnyPhrase(ClassifiedText, DeclinePhrases)
    /\ AnyPhrase(ClassifiedText, TransferPhrases)
    /\ response.result = "rejected_by_carrier"

\* C22: classify_call_sentiment always returns a sentiment, by these
\* rules in order over the numbers of positive, negative and frustration
\* keywords that occur: negative > positive gives negative, then
\* frustration > 2 gives frustrated, then positive > 0 gives positive,
\* else neutral; an empty or absent transcript gives neutral.
C22_SentimentOrder ==
    response.op = "classify_sentiment"
    => LET positive == WordCount(ClassifiedText, positive_words)
           negative == WordCount(ClassifiedText, negative_words)
           frustration == WordCount(ClassifiedText, frustrated_words)
       IN /\ response.result \in CallSentiment
          /\ response.result =
               IF negative > positive THEN "negative"
               ELSE IF frustration > 2 THEN "frustrated"
               ELSE IF positive > 0 THEN "positive"
               ELSE "neutral"
          /\ ClassifiedText = <<>> => response.result = "neutral"

\* more negative than positive keywords together with three frustration
\* keywords: the sentiment is negative
C22_Witness ==
    /\ response.op = "classify_sentiment"
    /\ WordCount(ClassifiedText, frustrated_words) > 2
    /\ WordCount(ClassifiedText, negative_words)
         > WordCount(ClassifiedText, positive_words)
    /\ response.result = "negative"

\* request r commits what it decided for negotiation id
CommitOf(r, id) ==
    /\ sessions[r].pc = "commit"
    /\ sessions[r].id = id
    /\ sessions'[r].pc = "idle"

\* C23: a negotiation that cleanup-expired has set to EXPIRED is not
\* modified afterwards by a counter-offer, accept or reject that was in
\* flight on it (one that had read it while it was ACTIVE).
C23_CleanupSafeToInterleave ==
    [][\A r \in Requests, id \in NegotiationIds :
          (/\ CommitOf(r, id)
           /\ sessions[r].prior = "active"
           /\ response.op = "cleanup"
           /\ response.count > 0
           /\ Neg(id).status = "expired")
          => Neg(id)' = Neg(id)]_vars

\* request r commits a counter-offer that passed the round-limit check on
\* the round it read, after another counter-offer that read the same
\* round has committed
SecondOfTwoCounterOffers(r, id) ==
    /\ CommitOf(r, id)
    /\ sessions[r].op = "counter_offer"
    /\ sessions[r].found
    /\ sessions[r].update[1].current_round = Neg(id).current_round

\* C25 as stated: two interleaved counter-offers that both pass the
\* round-limit check advance current_round by 2.
C25_DoubleIncrement ==
    [][\A r \in Requests, id \in NegotiationIds :
          SecondOfTwoCounterOffers(r, id)
          => Neg(id)'.current_round = Neg(id).current_round + 1]_vars

\* C25: two interleaved counter-offers that both pass the round-limit check
\* both succeed, and each writes the round it read plus 1: the second
\* commit leaves current_round where the first put it and replaces the
\* first offer, and current_round never exceeds max_rounds.
C25_LostUpdate ==
    [][\A r \in Requests, id \in NegotiationIds :
          /\ SecondOfTwoCounterOffers(r, id)
             => /\ Neg(id)'.current_round = Neg(id).current_round
                /\ Neg(id)'.current_offer_amount
                     = sessions[r].update[1].current_offer_amount
                /\ response'.op = "counter_offer"
                /\ response'.status_code = 200
          /\ Has(id)' => Neg(id)'.current_round <= Neg(id)'.max_rounds]_vars

\* both counter-offers read round 1 of 2: one has committed round 2 and the
\* other is about to commit round 2 again
C25_Witness ==
    /\ Has("n1")
    /\ Neg("n1").status = "active"
    /\ Neg("n1").max_rounds = 2
    /\ Neg("n1").current_round = 2
    /\ response.op = "counter_offer"
    /\ response.status_code = 200
    /\ \E r \in Requests :
          /\ sessions[r].pc = "commit"
          /\ sessions[r].op = "counter_offer"
          /\ sessions[r].found
          /\ sessions[r].update[1].current_round = 2

C26_ExpiryAndMaxRoundsFixed ==
    [][\A id \in NegotiationIds :
          Has(id)
          => /\ Has(id)'
             /\ Neg(id)'.expires_at = Neg(id).expires_at
             /\ Neg(id)'.max_rounds = Neg(id).max_rounds]_vars

\* C26: max_rounds of an existing negotiation never changes; expires_at is
\* changed by no operation except a PUT update whose body sets expires_at,
\* which stores the value of the body (null included).
C26_OnlyPutChangesExpiry ==
    [][\A id \in NegotiationIds :
          Has(id)
          => /\ Has(id)'
             /\ Neg(id)'.max_rounds = Neg(id).max_rounds
             /\ Neg(id)'.expires_at # Neg(id).expires_at
                => /\ CallOf("update", id)
                   /\ "expires_at" \in DOMAIN response'.body
                   /\ Neg(id)'.expires_at = response'.body.expires_at
             /\ (CallOf("update", id)
                 /\ "expires_at" \in DOMAIN response'.body)
                => Neg(id)'.expires_at = response'.body.expires_at]_vars

\* a PUT has moved the expiry of a negotiation to hour 100, and a PUT with
\* max_rounds in its body has left max_rounds alone
C26_Witness ==
    /\ response.op = "update"
    /\ response.status_code = 200
    /\ "max_rounds" \in DOMAIN response.body
    /\ Has("n1")
    /\ Neg("n1").expires_at = Some(100)
    /\ Neg("n1").max_rounds < 5

\* the request is a call_ended or call_completed event for a carrier, with
\* a call id that is not stored yet
FinalizesNewCall ==
    /\ response'.op = "webhook"
    /\ now' = now
    /\ response'.event_type \in {"call_ended", "call_completed"}
    /\ "carrier_mc_number" \in DOMAIN response'.extracted_data
    /\ ~CallExists(calls, CallId(response'.id, now))

\* C27: the webhook creates and returns the call record of such an event
\* whatever its call_outcome and carrier_sentiment, with a known outcome
\* kept (a default one otherwise) and a missing or unknown sentiment
\* stored as neutral.
C27_WebhookFallsBack ==
    [][FinalizesNewCall
       => /\ response'.result
          /\ Len(calls') = Len(calls) + 1
          /\ calls'[Len(calls')].call_id = CallId(response'.id, now)
          /\ calls'[Len(calls')].outcome # None
          /\ calls'[Len(calls')].sentiment \in {Some(v) : v \in CallSentiment}]_vars

\* the negotiation is ACTIVE in its last round (current_round = max_rounds)
InLastRound(id) ==
    /\ Has(id)
    /\ Neg(id).status = "active"
    /\ Neg(id).current_round = Neg(id).max_rounds

\* the rounds of a negotiation count its successful counter-offers: it
\* starts in round 1, a counter-offer that succeeds adds 1 without passing
\* max_rounds, and no other request changes current_round; so at most
\* max_rounds - 1 counter-offers succeed, none when max_rounds = 1
RoundsCountCounterOffers(id) ==
    /\ (~Has(id) /\ Has(id)') => Neg(id)'.current_round = 1
    /\ Has(id)
       => IF CallOf("counter_offer", id) /\ response'.status_code = 200
          THEN /\ Neg(id)'.current_round = Neg(id).current_round + 1
               /\ Neg(id)'.current_round <= Neg(id)'.max_rounds
               /\ Neg(id)'.max_rounds = Neg(id).max_rounds
          ELSE /\ Neg(id)'.current_round = Neg(id).current_round
               /\ Neg(id)'.max_rounds = Neg(id).max_rounds

\* a step that can change a round: it changes the table or answers a
\* counter-offer
MayChangeRound ==
    negotiations' # negotiations \/ response'.op = "counter_offer"

C29_FinalRateIffAccepted ==
    \A id \in NegotiationIds :
        Has(id)
        => /\ Neg(id).final_agreed_rate # None <=> Neg(id).status = "accepted"
           /\ Neg(id).status = "accepted"
              => Neg(id).current_offer_type = "final"

\* C30: the decision of Evaluate depends only on original_rate,
\* current_round, max_rounds and the offer: the same negotiation with any
\* other status, expires_at, current_offer_amount and current_offer_by gets
\* the same decision, so an offer of at least min_acceptable is accepted
\* on a REJECTED, EXPIRED or ACCEPTED negotiation too.
C30_DecisionIgnoresOtherFields ==
    [][\A id \in TwoIds :
          (CallOf("evaluate", id) /\ Has(id))
          => /\ \A status \in NegotiationStatus, amount \in Amounts,
                   by \in OfferBy, expires_at \in {None, Some(0), Some(100)} :
                   evaluate_carrier_offer(
                       <<[Neg(id) EXCEPT !.status = status,
                                         !.current_offer_amount = amount,
                                         !.current_offer_by = by,
                                         !.expires_at = expires_at]>>,
                       id, response'.carrier_offer)
                   = response'.decision
             /\ 100 * response'.carrier_offer >= StatedMinAcceptable(Neg(id))
                => response'.decision.should_accept]_vars

\* 1450.00 offered on a REJECTED negotiation of 1500.00 is accepted
C30_Witness ==
    /\ response.op = "evaluate"
    /\ Has(response.id)
    /\ Neg(response.id).status = "rejected"
    /\ Neg(response.id).original_rate = 150000
    /\ response.carrier_offer = 145000
    /\ response.decision.should_accept

====
